---- MODULE Spec2Model ----
(***************************************************************************)
(* Histogram equalisation on an OpenCL device (Tutorial 2.cpp).            *)
(*                                                                         *)
(* The host program (main) reads a bin count and an 8-bit image, allocates *)
(* five device buffers, uploads the image and then runs four kernels,      *)
(* int_hist, cum_hist, norm_hist and back_project, each followed by a      *)
(* blocking read of its result, on one in-order command queue.             *)
(*                                                                         *)
(* The kernels live in kernels/my_kernels.cl; their behaviour is taken     *)
(* from the header comment of Tutorial 2.cpp (lines 1-20) and from the     *)
(* arguments, buffer sizes and work sizes main gives them.                 *)
(*                                                                         *)
(* Arrays are functions over 0..n-1. Four specifications share the         *)
(* definitions: Spec runs the program once, the work items of a kernel     *)
(* advancing in lockstep; SpecRuns runs it repeatedly on the same inputs;  *)
(* SpecItems runs it on small inputs with the work items interleaved one   *)
(* step at a time; SpecNorm applies norm_hist to arbitrary cumulative      *)
(* histograms.                                                             *)
(***************************************************************************)
EXTENDS Integers, Sequences, FiniteSets, TLC

(***************************************************************************)
(* Program constants                                                       *)
(***************************************************************************)
\* sizeof(int) on the host: int_hist_size = H.size() * sizeof(int)
SizeofInt == 4

\* number of values of an unsigned char pixel (CImg<unsigned char>)
Levels == 256

(***************************************************************************)
(* Bounds of the model                                                     *)
(***************************************************************************)
\* largest small bin count tried (besides Levels and 0)
MaxBins == 3

\* largest small image size tried (besides Levels)
MaxPixels == 3

\* how many times the program is run on the same inputs
MaxRuns == 2

\* magnitude of the values uninitialised device memory may hold
MaxGarbage == 1

\* work groups executing at the same time when work items are interleaved
MaxResident == 1

\* largest bin count given to cum_hist on its own
MaxScanBins == 3

\* largest bin count and image size given to norm_hist on its own
MaxNormBins == 4

MaxNormPixels == 8

(***************************************************************************)
(* Arrays and arithmetic                                                   *)
(***************************************************************************)
\* an array of n elements all equal to v (std::vector<int>(n) is Fill(n, 0))
Fill(n, v) == [i \in 0..(n - 1) |-> v]

Size(A) == Cardinality(DOMAIN A)

\* the first n elements of A: what a read of n elements from offset 0 returns
Take(A, n) == [i \in 0..(n - 1) |-> A[i]]

\* C's integer division for a positive divisor: truncation toward zero
TruncDiv(a, b) == IF a >= 0 THEN a \div b ELSE -((-a) \div b)

\* conversion of an int to unsigned char when it is stored in a byte buffer
ToUchar(x) == x % Levels

RECURSIVE SumRange(_, _, _)
\* A[lo] + ... + A[hi], summed by halves
SumRange(A, lo, hi) ==
  IF lo > hi THEN 0
  ELSE IF lo = hi THEN A[lo]
  ELSE SumRange(A, lo, (lo + hi) \div 2) + SumRange(A, ((lo + hi) \div 2) + 1, hi)

\* number of pixels of image A with intensity v
Count(A, v) == Cardinality({p \in DOMAIN A : A[p] = v})

(***************************************************************************)
(* Inputs                                                                  *)
(***************************************************************************)
Stages == <<"int_hist", "cum_hist", "norm_hist", "back_project">>

StageSet == {Stages[k] : k \in 1..4}

\* bin counts entered at the prompt: small ones, zero, a negative one, 256 for
\* 8-bit images, and one above 256
BinCounts == ((-1)..MaxBins) \cup {Levels, Levels + 1}

\* intensities tried in small images with b bins: the first and last bin, the
\* first intensity without a bin, and white
PixelChoices(b) == {0, b - 1, b, Levels - 1} \cap (0..(Levels - 1))

\* full-size test images: a ramp through all levels, and uniform images
WideImages == {[p \in 0..(Levels - 1) |-> p]}
                \cup {Fill(Levels, c) : c \in {0, Levels - 2, Levels - 1}}
                \cup {[p \in 0..(Levels - 1) |-> IF p < Levels - 2 THEN Levels - 2 ELSE Levels - 1]}

\* the images loaded for bin count b, among them one without pixels
Images(b) == WideImages
               \cup UNION {[0..(n - 1) -> PixelChoices(b)] : n \in 0..MaxPixels}

\* values an uninitialised int may hold
GarbageValues == (-MaxGarbage)..MaxGarbage

\* contents of a freshly created device buffer of n ints: cl::Buffer without
\* a host pointer leaves them undefined. Zeroed pages, one stale fill value,
\* or a single stale cell; the buffers of one run start with the same pattern.
Uninit(n) == {Fill(n, g) : g \in GarbageValues}
               \cup {[i \in 0..(n - 1) |-> IF i = 0 THEN g ELSE 0] : g \in GarbageValues}

\* the byte the image buffers of a run hold when the histogram buffers hold h
StaleByte(h) == IF 0 \in DOMAIN h THEN ToUchar(h[0]) ELSE 0

\* what an access outside a buffer, or a division by zero, may do on the
\* device: yield some value, or make the command fail
UBOutcomes == {[fault |-> FALSE, val |-> g] : g \in GarbageValues}
                \cup {[fault |-> TRUE, val |-> 0]}

(***************************************************************************)
(* State                                                                   *)
(***************************************************************************)
VARIABLES
  pc,                    \* position of main
  stage,                 \* index in Stages of the stage main is working on
  bin_count,             \* cin >> bin_count
  image_input,           \* the loaded image, one intensity per pixel
  int_histogram_buffer,  \* host copies of the three histograms
  cum_histogram_buffer,
  norm_histogram_buffer,
  output_buffer,         \* host copy of the output pixels
  output_image,          \* the image shown to the user, << >> while none
  allocated,             \* device buffers that exist (live cl::Buffer objects)
  diagnostic,            \* what main has written to std::cerr, "none" while nothing
  dev_image_input,       \* device buffers
  dev_image_output,
  int_histogram,
  cum_histogram,
  norm_histogram,
  queue,                 \* commands enqueued and not yet completed
  fault,                 \* a command of this run failed on the device
  running,               \* kernel being executed item by item, or "none"
  phase,                 \* steps completed by each work item of that kernel
  started,               \* work groups of that kernel that have started
  scratch_1,             \* local memory of each work group of cum_hist
  scratch_2,
  dispatch_log,          \* history: stages in the order they were dispatched
  completed,             \* history: stages whose result has been read back
  created,               \* history: device buffers created in this run
  runs,                  \* how many times main has been started
  prev_output            \* history: output image of the previous run

hostVars == <<pc, stage, bin_count, image_input, int_histogram_buffer,
              cum_histogram_buffer, norm_histogram_buffer, output_buffer,
              output_image, allocated, diagnostic>>

devVars == <<dev_image_input, dev_image_output, int_histogram, cum_histogram,
             norm_histogram, queue, fault>>

itemVars == <<running, phase, started, scratch_1, scratch_2>>

histVars == <<dispatch_log, completed, created, runs, prev_output>>

vars == <<hostVars, devVars, itemVars, histVars>>

(***************************************************************************)
(* Host: sizes and kernel arguments                                        *)
(***************************************************************************)
\* const int image_size = image_input.size()
image_size == Size(image_input)

\* a work-group size of half the bins
half_local_size == (bin_count + 1) \div 2

\* size_t local_size = H.size(), H being std::vector<int> H(bin_count)
local_size == bin_count

\* size_t int_hist_size = int_histogram_buffer.size() * sizeof(int): the byte
\* size of the host histogram (cum_hist_size and norm_hist_size are the same)
int_hist_size == bin_count * SizeofInt

\* cl::Buffer int_histogram(context, CL_MEM_READ_WRITE, int_hist_size * sizeof(int)):
\* the number of ints the device histogram buffers hold
HistBufferInts == (int_hist_size * SizeofInt) \div SizeofInt

\* elements returned by enqueueReadBuffer(..., 0, int_hist_size, ...) of ints
HistReadInts == int_hist_size \div SizeofInt

\* kernel_norm.setArg(2, int(image_input.size())); setArg(3, int(H.size()))
norm_args == [image_size |-> image_size, bin_count |-> bin_count]

\* a read that returns at once (CL_FALSE)
nonblocking_read == FALSE

\* the queue is created in order (no CL_QUEUE_OUT_OF_ORDER_EXEC_MODE_ENABLE)
\* and every enqueueReadBuffer passes CL_TRUE: the call returns after the copy
blocking_read == TRUE

\* global work size of each dispatch
GlobalSize(s) ==
  CASE s = "int_hist"     -> image_size
    [] s = "cum_hist"     -> int_hist_size
    [] s = "norm_hist"    -> int_hist_size
    [] s = "back_project" -> image_size

\* a device that accepts any non-empty global size
AnyNDRange(global, local) == local > 0 /\ global > 0

\* enqueueNDRangeKernel rejects (CL_INVALID_WORK_GROUP_SIZE) a global size that
\* is not a multiple of the local size; the program is built without options,
\* so work groups are uniform
ValidNDRange(global, local) == local > 0 /\ global > 0 /\ global % local = 0

(***************************************************************************)
(* Device: the four kernels, one work item at a time                       *)
(*                                                                         *)
(* m is the device memory a kernel sees: the five global buffers, the two  *)
(* local buffers of each work group, and the fault flag. ub is the outcome *)
(* of any undefined operation the work item performs.                      *)
(***************************************************************************)
DevMem == [dev_image_input  |-> dev_image_input,
           dev_image_output |-> dev_image_output,
           int_histogram    |-> int_histogram,
           cum_histogram    |-> cum_histogram,
           norm_histogram   |-> norm_histogram,
           scratch_1        |-> scratch_1,
           scratch_2        |-> scratch_2,
           fault            |-> fault]

\* int_hist(A, H): the bin index is the pixel value; atomic_inc(&H[index]).
\* The bins are assumed to be zero beforehand. An index past the buffer is
\* an access outside it.
int_hist(m, id, ub) ==
  LET bin_index == m.dev_image_input[id]
  IN  IF bin_index \in DOMAIN m.int_histogram
        THEN [m EXCEPT !.int_histogram[bin_index] = @ + 1]
        ELSE [m EXCEPT !.fault = @ \/ ub.fault]

RECURSIVE StepsFrom(_, _)
\* iterations left of: for (i = stride; i < n; i *= 2)
StepsFrom(stride, n) == IF stride < n THEN 1 + StepsFrom(2 * stride, n) ELSE 0

\* number of scan steps of a work group of n items: ceil(log2(n))
ScanSteps(n) == StepsFrom(1, n)

\* stride of scan step k = 1, 2, ...: 1, 2, 4, ...
Stride(k) == 2 ^ (k - 1)

\* steps a work item of kernel s performs in a work group of n items:
\* cum_hist loads, scans and stores, the other kernels do one thing
NumPhases(s, n) == IF s = "cum_hist" THEN ScanSteps(n) + 2 ELSE 1

\* one element of a Hillis-Steele step: position lid adds the value stride
\* places before it, positions below the stride copy their own
ScanSum(cur, lid, stride) ==
  IF lid >= stride THEN cur[lid] + cur[lid - stride] ELSE cur[lid]

\* cum_hist(A, B, scratch_1, scratch_2): double-buffered Hillis-Steele
\* inclusive scan of one work group in local memory. k is the number of
\* steps the work item has completed; a barrier separates the steps.
\*   k = 0           scratch_1[lid] = A[id]
\*   k = 1..steps    next[lid] = ScanSum(cur, lid, stride), then swap cur and next
\*   k = steps + 1   B[id] = cur[lid]
cum_hist(m, id, k, n, ub) ==
  LET w      == id \div n
      lid    == id % n
      steps  == ScanSteps(n)
      cur    == IF k % 2 = 1 THEN m.scratch_1[w] ELSE m.scratch_2[w]
      final  == IF steps % 2 = 0 THEN m.scratch_1[w] ELSE m.scratch_2[w]
  IN  CASE k = 0 ->
             IF id \in DOMAIN m.int_histogram
               THEN [m EXCEPT !.scratch_1[w][lid] = m.int_histogram[id]]
               ELSE [m EXCEPT !.scratch_1[w][lid] = ub.val, !.fault = @ \/ ub.fault]
        [] k \in 1..steps ->
             IF k % 2 = 1
               THEN [m EXCEPT !.scratch_2[w][lid] = ScanSum(cur, lid, Stride(k))]
               ELSE [m EXCEPT !.scratch_1[w][lid] = ScanSum(cur, lid, Stride(k))]
        [] OTHER ->
             IF id \in DOMAIN m.cum_histogram
               THEN [m EXCEPT !.cum_histogram[id] = final[lid]]
               ELSE [m EXCEPT !.fault = @ \/ ub.fault]

\* the operands of the divisor exchanged: bin count / image size
SwappedDivisor(args) ==
  IF args.image_size = 0 THEN 0 ELSE TruncDiv(args.bin_count, args.image_size)

\* the divisor of norm_hist: image size / bin count on ints (0 stands for
\* a division by zero as well)
NormDivisor(args) ==
  IF args.bin_count = 0 THEN 0 ELSE TruncDiv(args.image_size, args.bin_count)

\* norm_hist(A, B, image_size, bin_count): each element of the cumulative
\* histogram divided by (image size / bin count), both divisions on ints
norm_hist(m, id, args, ub) ==
  LET defined == NormDivisor(args) # 0 /\ id \in DOMAIN m.cum_histogram
      value   == IF defined THEN TruncDiv(m.cum_histogram[id], NormDivisor(args))
                 ELSE ub.val
  IN  IF id \in DOMAIN m.norm_histogram
        THEN [m EXCEPT !.norm_histogram[id] = value,
                       !.fault = @ \/ (~defined /\ ub.fault)]
        ELSE [m EXCEPT !.fault = @ \/ ub.fault]

\* the value back_project finds for intensity index in the look-up table
Lookup(LUT, index, ub) == IF index \in DOMAIN LUT THEN LUT[index] ELSE ub.val

\* back_project(A, LUT, B): the pixel's intensity indexes the look-up table
\* and the value found becomes the output pixel, a byte
back_project(m, id, ub) ==
  LET index == m.dev_image_input[id]
  IN  [m EXCEPT !.dev_image_output[id] = ToUchar(Lookup(m.norm_histogram, index, ub)),
                !.fault = @ \/ (index \notin DOMAIN m.norm_histogram /\ ub.fault)]

\* step k of work item id of kernel s, enqueued with local size n
ItemStep(s, m, id, k, n, ub) ==
  CASE s = "int_hist"     -> int_hist(m, id, ub)
    [] s = "cum_hist"     -> cum_hist(m, id, k, n, ub)
    [] s = "norm_hist"    -> norm_hist(m, id, norm_args, ub)
    [] s = "back_project" -> back_project(m, id, ub)

\* local memory of the work groups of a dispatch, not initialised
LocalMem(s, global, n, g) ==
  IF s = "cum_hist" THEN [w \in 0..((global \div n) - 1) |-> Fill(n, g)] ELSE << >>

(***************************************************************************)
(* Device: one step of a dispatch performed by all its work items          *)
(***************************************************************************)
\* work item id uses an index outside the buffer it addresses in step k of
\* kernel s
IndexOutside(s, m, id, k, n) ==
  CASE s = "int_hist" ->
         m.dev_image_input[id] \notin DOMAIN m.int_histogram
    [] s = "cum_hist" ->
         \/ k = 0 /\ id \notin DOMAIN m.int_histogram
         \/ k = ScanSteps(n) + 1 /\ id \notin DOMAIN m.cum_histogram
    [] s = "norm_hist" ->
         \/ id \notin DOMAIN m.cum_histogram
         \/ id \notin DOMAIN m.norm_histogram
    [] s = "back_project" ->
         m.dev_image_input[id] \notin DOMAIN m.norm_histogram

\* work item id performs an undefined operation in step k of kernel s: an
\* access outside a buffer, or a division by zero
ItemUndefined(s, m, id, k, n) ==
  \/ IndexOutside(s, m, id, k, n)
  \/ s = "norm_hist" /\ NormDivisor(norm_args) = 0

\* some work item performs an undefined operation in step k of kernel s
Undefined(s, m, k, global, n) ==
  \E id \in 0..(global - 1) : ItemUndefined(s, m, id, k, n)

\* the outcomes to consider for a step: those of its undefined operations,
\* if it performs any
Outcomes(s, m, k, global, n) ==
  IF Undefined(s, m, k, global, n) THEN UBOutcomes ELSE {[fault |-> FALSE, val |-> 0]}

\* all work items of int_hist: bin v has been incremented once for every
\* pixel of intensity v
IntHistAll(m, global) ==
  LET present == {m.dev_image_input[id] : id \in 0..(global - 1)}
  IN  [m EXCEPT !.int_histogram =
                  [v \in DOMAIN @ |->
                     IF v \in present
                       THEN @[v] + Cardinality({id \in 0..(global - 1) :
                                                  m.dev_image_input[id] = v})
                       ELSE @[v]]]

\* all work items of cum_hist perform step k, in work groups of n
CumHistAll(m, k, global, n, ub) ==
  LET groups == 0..((global \div n) - 1)
      steps  == ScanSteps(n)
  IN  CASE k = 0 ->
             [m EXCEPT !.scratch_1 =
                [w \in groups |->
                   [lid \in 0..(n - 1) |->
                      IF w * n + lid \in DOMAIN m.int_histogram
                        THEN m.int_histogram[w * n + lid] ELSE ub.val]]]
        [] k \in 1..steps /\ k % 2 = 1 ->
             [m EXCEPT !.scratch_2 =
                [w \in groups |->
                   [lid \in 0..(n - 1) |-> ScanSum(m.scratch_1[w], lid, Stride(k))]]]
        [] k \in 1..steps /\ k % 2 = 0 ->
             [m EXCEPT !.scratch_1 =
                [w \in groups |->
                   [lid \in 0..(n - 1) |-> ScanSum(m.scratch_2[w], lid, Stride(k))]]]
        [] OTHER ->
             [m EXCEPT !.cum_histogram =
                [id \in DOMAIN @ |->
                   IF id >= global THEN @[id]
                   ELSE IF steps % 2 = 0 THEN m.scratch_1[id \div n][id % n]
                                         ELSE m.scratch_2[id \div n][id % n]]]

\* all work items of norm_hist
NormHistAll(m, global, args, ub) ==
  [m EXCEPT !.norm_histogram =
              [id \in DOMAIN @ |->
                 IF id >= global THEN @[id]
                 ELSE IF NormDivisor(args) # 0 /\ id \in DOMAIN m.cum_histogram
                        THEN TruncDiv(m.cum_histogram[id], NormDivisor(args))
                        ELSE ub.val]]

\* all work items of back_project
BackProjectAll(m, global, ub) ==
  [m EXCEPT !.dev_image_output =
              [id \in DOMAIN @ |->
                 IF id >= global THEN @[id]
                 ELSE ToUchar(Lookup(m.norm_histogram, m.dev_image_input[id], ub))]]

\* device memory after all work items of kernel s have performed step k
PhaseAll(s, m, k, global, n, ub) ==
  LET r == CASE s = "int_hist"     -> IntHistAll(m, global)
             [] s = "cum_hist"     -> CumHistAll(m, k, global, n, ub)
             [] s = "norm_hist"    -> NormHistAll(m, global, norm_args, ub)
             [] s = "back_project" -> BackProjectAll(m, global, ub)
  IN  [r EXCEPT !.fault = @ \/ (ub.fault /\ Undefined(s, m, k, global, n))]

(***************************************************************************)
(* Initial state: main has read the bin count and loaded the image         *)
(***************************************************************************)
\* nothing allocated, queued or running yet
Blank ==
  /\ stage = 1
  /\ int_histogram_buffer = << >>
  /\ cum_histogram_buffer = << >>
  /\ norm_histogram_buffer = << >>
  /\ output_buffer = << >>
  /\ output_image = << >>
  /\ allocated = {}
  /\ diagnostic = "none"
  /\ created = {}
  /\ dev_image_input = << >>
  /\ dev_image_output = << >>
  /\ int_histogram = << >>
  /\ queue = << >>
  /\ fault = FALSE
  /\ running = "none"
  /\ phase = << >>
  /\ started = {}
  /\ scratch_1 = << >>
  /\ scratch_2 = << >>
  /\ dispatch_log = << >>
  /\ completed = {}
  /\ runs = 1
  /\ prev_output = << >>

InitWith(bins, imgs) ==
  /\ bin_count \in bins
  /\ image_input \in imgs
  /\ pc = "build"
  /\ cum_histogram = << >>
  /\ norm_histogram = << >>
  /\ Blank

Init ==
  \E b \in BinCounts : InitWith({b}, Images(b))

(***************************************************************************)
(* Host: main                                                              *)
(***************************************************************************)
\* where main goes once the result of the current stage is on the host
Advance ==
  IF stage = 4
    THEN pc' = "construct" /\ stage' = stage
    ELSE pc' = "dispatch" /\ stage' = stage + 1

\* the five device buffers, in the order main creates them
ImageBuffers == {"dev_image_input", "dev_image_output"}

HistogramBuffers == {"int_histogram", "cum_histogram", "norm_histogram"}

\* a catch block that prints nothing
RaiseSilently(err) ==
  /\ pc' = "failed"
  /\ diagnostic' = "none"
  /\ allocated' = {}

\* a cl::Error leaves the try block of main: the cl::Buffer objects declared
\* in it are destroyed, which releases the device buffers, and the handler
\* prints "ERROR: " with the error's text
Raise(err) ==
  /\ pc' = "failed"
  /\ diagnostic' = err
  /\ allocated' = {}

\* clCreateBuffer accepts any size, zero included
AnyBufferSize(bytes) == bytes >= 0

\* clCreateBuffer refuses a size of zero bytes (CL_INVALID_BUFFER_SIZE)
ValidBufferSize(bytes) == bytes > 0

\* std::vector<int> H(bin_count), the context, the queue and program.build().
\* A negative bin count makes the vector throw std::length_error, which no
\* handler of main catches: the program is terminated. A failed build is
\* reported and thrown on to the handler of main.
Build ==
  /\ pc = "build"
  /\ IF bin_count < 0
       THEN pc' = "aborted" /\ UNCHANGED <<allocated, diagnostic>>
       ELSE \E built \in BOOLEAN :
              IF built
                THEN pc' = "alloc" /\ UNCHANGED <<allocated, diagnostic>>
                ELSE Raise("cl::Error")
  /\ UNCHANGED <<stage, bin_count, image_input, int_histogram_buffer,
                 cum_histogram_buffer, norm_histogram_buffer, output_buffer,
                 output_image, devVars, itemVars, histVars>>

\* std::vector<int> int_histogram_buffer(H.size()) and the five cl::Buffer.
\* No buffer is given a host pointer or filled: their contents are undefined.
\* A buffer the device refuses (a size of zero bytes, or no memory left for
\* the last one) throws cl::Error, which ends the run.
Allocate ==
  /\ pc = "alloc"
  /\ IF ~ValidBufferSize(image_size)
       THEN /\ Raise("cl::Error")
            /\ UNCHANGED <<int_histogram_buffer, dev_image_input, dev_image_output,
                           int_histogram, cum_histogram, norm_histogram, created>>
       ELSE IF ~ValidBufferSize(int_hist_size * SizeofInt)
       THEN /\ Raise("cl::Error")
            /\ created' = ImageBuffers
            /\ int_histogram_buffer' = Fill(bin_count, 0)
            /\ UNCHANGED <<dev_image_input, dev_image_output,
                           int_histogram, cum_histogram, norm_histogram>>
       ELSE /\ int_histogram_buffer' = Fill(bin_count, 0)
            /\ \E granted \in BOOLEAN :
                 IF granted
                   THEN /\ \E h \in Uninit(HistBufferInts) :
                             /\ int_histogram' = h
                             /\ cum_histogram' = h
                             /\ norm_histogram' = h
                             /\ dev_image_input' = Fill(image_size, StaleByte(h))
                             /\ dev_image_output' = Fill(image_size, StaleByte(h))
                        /\ pc' = "upload"
                        /\ allocated' = ImageBuffers \cup HistogramBuffers
                        /\ created' = ImageBuffers \cup HistogramBuffers
                        /\ UNCHANGED diagnostic
                   ELSE /\ Raise("cl::Error")
                        /\ created' = (ImageBuffers \cup HistogramBuffers) \ {"norm_histogram"}
                        /\ UNCHANGED <<dev_image_input, dev_image_output,
                                       int_histogram, cum_histogram, norm_histogram>>
  /\ UNCHANGED <<stage, bin_count, image_input, cum_histogram_buffer,
                 norm_histogram_buffer, output_buffer, output_image,
                 queue, fault, itemVars, dispatch_log, completed, runs, prev_output>>

\* the four blocking enqueueWriteBuffer of the image into dev_image_input;
\* a transfer the device fails throws cl::Error
Upload ==
  /\ pc = "upload"
  /\ \E transferred \in BOOLEAN :
       IF transferred
         THEN /\ dev_image_input' = image_input
              /\ pc' = "dispatch"
              /\ UNCHANGED <<allocated, diagnostic>>
         ELSE /\ Raise("cl::Error")
              /\ UNCHANGED dev_image_input
  /\ UNCHANGED <<stage, bin_count, image_input, int_histogram_buffer,
                 cum_histogram_buffer, norm_histogram_buffer, output_buffer,
                 output_image, dev_image_output, int_histogram, cum_histogram,
                 norm_histogram, queue, fault, itemVars, histVars>>

\* queue.enqueueNDRangeKernel(kernel, NullRange, NDRange(global), NDRange(local_size)):
\* the kernel is queued, or the call throws cl::Error and main ends
Dispatch(s) ==
  /\ pc = "dispatch"
  /\ Stages[stage] = s
  /\ IF ValidNDRange(GlobalSize(s), local_size)
       THEN /\ queue' = Append(queue, [op |-> "kernel", stage |-> s,
                                       global |-> GlobalSize(s), local |-> local_size])
            /\ dispatch_log' = Append(dispatch_log, s)
            /\ pc' = "read"
            /\ UNCHANGED <<allocated, diagnostic>>
       ELSE /\ Raise("cl::Error")
            /\ UNCHANGED <<queue, dispatch_log>>
  /\ UNCHANGED <<stage, bin_count, image_input, int_histogram_buffer, output_image,
                 dev_image_input, dev_image_output, int_histogram, cum_histogram,
                 norm_histogram, fault, itemVars, completed, created, runs, prev_output>>

DispatchIntHist ==
  /\ Dispatch("int_hist")
  /\ UNCHANGED <<cum_histogram_buffer, norm_histogram_buffer, output_buffer>>

\* std::vector<int> cum_histogram_buffer(H.size()), then the dispatch
DispatchCumHist ==
  /\ Dispatch("cum_hist")
  /\ cum_histogram_buffer' = Fill(bin_count, 0)
  /\ UNCHANGED <<norm_histogram_buffer, output_buffer>>

\* std::vector<int> norm_histogram_buffer(H.size()), then the dispatch
DispatchNormHist ==
  /\ Dispatch("norm_hist")
  /\ norm_histogram_buffer' = Fill(bin_count, 0)
  /\ UNCHANGED <<cum_histogram_buffer, output_buffer>>

\* vector<unsigned char> output_buffer(image_input.size()), then the dispatch
DispatchBackProject ==
  /\ Dispatch("back_project")
  /\ output_buffer' = Fill(image_size, 0)
  /\ UNCHANGED <<cum_histogram_buffer, norm_histogram_buffer>>

\* queue.enqueueReadBuffer(buffer, CL_TRUE, 0, size, host): the read is queued
\* behind the kernel and main waits for it
EnqueueRead ==
  /\ pc = "read"
  /\ queue' = Append(queue, [op |-> "read", stage |-> Stages[stage],
                             global |-> 0, local |-> 0])
  /\ IF blocking_read THEN pc' = "wait" /\ stage' = stage ELSE Advance
  /\ UNCHANGED <<bin_count, image_input, int_histogram_buffer, cum_histogram_buffer,
                 norm_histogram_buffer, output_buffer, output_image,
                 allocated, diagnostic, dev_image_input, dev_image_output, int_histogram, cum_histogram,
                 norm_histogram, fault, itemVars, histVars>>

\* the blocking read returns once the device has completed it; a command that
\* failed on the device makes it throw cl::Error
ReadReturns ==
  /\ pc = "wait"
  /\ queue = << >>
  /\ IF fault
       THEN Raise("cl::Error") /\ stage' = stage
       ELSE Advance /\ UNCHANGED <<allocated, diagnostic>>
  /\ UNCHANGED <<bin_count, image_input, int_histogram_buffer, cum_histogram_buffer,
                 norm_histogram_buffer, output_buffer, output_image,
                 devVars, itemVars, histVars>>

\* CImg<unsigned char> output_image(output_buffer.data(), ...), shown until closed
Construct ==
  /\ pc = "construct"
  /\ output_image' = output_buffer
  /\ pc' = "done"
  /\ UNCHANGED <<stage, bin_count, image_input, int_histogram_buffer,
                 cum_histogram_buffer, norm_histogram_buffer, output_buffer,
                 allocated, diagnostic, devVars, itemVars, histVars>>

\* the program is started again on the same image with the same bin count
Rerun ==
  /\ pc = "done"
  /\ runs < MaxRuns
  /\ runs' = runs + 1
  /\ prev_output' = output_image
  /\ pc' = "build"
  /\ stage' = 1
  /\ allocated' = {}
  /\ diagnostic' = "none"
  /\ created' = {}
  /\ int_histogram_buffer' = << >>
  /\ cum_histogram_buffer' = << >>
  /\ norm_histogram_buffer' = << >>
  /\ output_buffer' = << >>
  /\ output_image' = << >>
  /\ dev_image_input' = << >>
  /\ dev_image_output' = << >>
  /\ int_histogram' = << >>
  /\ cum_histogram' = << >>
  /\ norm_histogram' = << >>
  /\ fault' = FALSE
  /\ dispatch_log' = << >>
  /\ completed' = {}
  /\ UNCHANGED <<bin_count, image_input, queue, itemVars>>

Host ==
  \/ Build
  \/ Allocate
  \/ Upload
  \/ DispatchIntHist
  \/ DispatchCumHist
  \/ DispatchNormHist
  \/ DispatchBackProject
  \/ EnqueueRead
  \/ ReadReturns
  \/ Construct

(***************************************************************************)
(* Device: the in-order command queue                                      *)
(***************************************************************************)
\* the device memory takes the contents of m
StoreMem(m) ==
  /\ dev_image_output' = m.dev_image_output
  /\ int_histogram' = m.int_histogram
  /\ cum_histogram' = m.cum_histogram
  /\ norm_histogram' = m.norm_histogram
  /\ scratch_1' = m.scratch_1
  /\ scratch_2' = m.scratch_2
  /\ fault' = m.fault

\* the kernel at the head of the queue starts: its work items have performed
\* no step yet and the local memory of its work groups holds anything
KernelStart ==
  /\ queue # << >>
  /\ Head(queue).op = "kernel"
  /\ running = "none"
  /\ LET c == Head(queue)
     IN  /\ running' = c.stage
         /\ phase' = Fill(c.global, 0)
         /\ \E g \in IF c.stage = "cum_hist" THEN GarbageValues ELSE {0} :
              /\ scratch_1' = LocalMem(c.stage, c.global, c.local, g)
              /\ scratch_2' = LocalMem(c.stage, c.global, c.local, g)
  /\ started' = {}
  /\ UNCHANGED <<hostVars, devVars, histVars>>

\* every work item of the running kernel performs its next step
LockStep ==
  /\ running # "none"
  /\ LET c == Head(queue)
         k == phase[0]
     IN  /\ k < NumPhases(c.stage, c.local)
         /\ \E ub \in Outcomes(c.stage, DevMem, k, c.global, c.local) :
              StoreMem(PhaseAll(c.stage, DevMem, k, c.global, c.local, ub))
         /\ phase' = Fill(c.global, k + 1)
  /\ UNCHANGED <<hostVars, dev_image_input, queue, running, started, histVars>>

\* every work item has performed every step: the kernel leaves the queue
KernelFinish ==
  /\ running # "none"
  /\ {id \in DOMAIN phase : phase[id] # NumPhases(running, Head(queue).local)} = {}
  /\ queue' = Tail(queue)
  /\ running' = "none"
  /\ phase' = << >>
  /\ started' = {}
  /\ scratch_1' = << >>
  /\ scratch_2' = << >>
  /\ UNCHANGED <<hostVars, dev_image_input, dev_image_output, int_histogram,
                 cum_histogram, norm_histogram, fault, histVars>>

\* the read at the head of the queue copies the first bin_count ints of a
\* histogram, or the output pixels, to the host
DeviceRead ==
  /\ queue # << >>
  /\ Head(queue).op = "read"
  /\ LET s == Head(queue).stage
     IN  /\ int_histogram_buffer' =
              IF s = "int_hist" /\ ~fault
                THEN Take(int_histogram, HistReadInts) ELSE int_histogram_buffer
         /\ cum_histogram_buffer' =
              IF s = "cum_hist" /\ ~fault
                THEN Take(cum_histogram, HistReadInts) ELSE cum_histogram_buffer
         /\ norm_histogram_buffer' =
              IF s = "norm_hist" /\ ~fault
                THEN Take(norm_histogram, HistReadInts) ELSE norm_histogram_buffer
         /\ output_buffer' =
              IF s = "back_project" /\ ~fault
                THEN Take(dev_image_output, Size(output_buffer)) ELSE output_buffer
         /\ completed' = IF fault THEN completed ELSE completed \cup {s}
  /\ queue' = Tail(queue)
  /\ UNCHANGED <<pc, stage, bin_count, image_input, output_image, allocated,
                 diagnostic, dev_image_input, dev_image_output, int_histogram,
                 cum_histogram, norm_histogram, fault, itemVars, dispatch_log,
                 created, runs, prev_output>>

Next ==
  \/ Host
  \/ KernelStart
  \/ LockStep
  \/ KernelFinish
  \/ DeviceRead

\* one execution of the program
Spec == Init /\ [][Next]_vars

NextRuns ==
  \/ Next
  \/ Rerun

\* the program executed up to MaxRuns times on the same inputs
SpecRuns == Init /\ [][NextRuns]_vars

(***************************************************************************)
(* Work items interleaved: SpecItems                                       *)
(***************************************************************************)
\* the work items of work group w of a dispatch with local size n
Group(w, n) == (w * n)..(w * n + n - 1)

\* work groups of the running kernel that started and have steps left
Resident ==
  {w \in started :
     \E id \in Group(w, Head(queue).local) :
        phase[id] < NumPhases(running, Head(queue).local)}

\* a work group of the running kernel is scheduled, in any order
GroupStart ==
  /\ running # "none"
  /\ Cardinality(Resident) < MaxResident
  /\ \E w \in (0..((Head(queue).global \div Head(queue).local) - 1)) \ started :
       started' = started \cup {w}
  /\ UNCHANGED <<hostVars, devVars, running, phase, scratch_1, scratch_2, histVars>>

\* work item id of a scheduled work group performs its next step; it passes
\* a barrier only when every work item of its group has reached it
WorkItem(id) ==
  /\ running # "none"
  /\ LET c == Head(queue)
         k == phase[id]
     IN  /\ (id \div c.local) \in started
         /\ k < NumPhases(c.stage, c.local)
         /\ {j \in Group(id \div c.local, c.local) : phase[j] < k} = {}
         /\ \E ub \in IF ItemUndefined(c.stage, DevMem, id, k, c.local)
                         THEN UBOutcomes ELSE {[fault |-> FALSE, val |-> 0]} :
              StoreMem(ItemStep(c.stage, DevMem, id, k, c.local, ub))
         /\ phase' = [phase EXCEPT ![id] = k + 1]
  /\ UNCHANGED <<hostVars, dev_image_input, queue, running, started, histVars>>

InitItems ==
  \E b \in 1..MaxBins :
     InitWith({b}, UNION {[0..(n - 1) -> PixelChoices(b)] : n \in 1..MaxPixels})

NextItems ==
  \/ Host
  \/ KernelStart
  \/ GroupStart
  \/ \E id \in DOMAIN phase : WorkItem(id)
  \/ KernelFinish
  \/ DeviceRead

\* the program on small inputs, work items interleaved step by step
SpecItems == InitItems /\ [][NextItems]_vars

(***************************************************************************)
(* norm_hist on its own: SpecNorm                                          *)
(***************************************************************************)
\* a bin count, an image size and any cumulative histogram of that many bins
InitNorm ==
  /\ bin_count \in 1..MaxNormBins
  /\ image_input \in {Fill(n, 0) : n \in 1..MaxNormPixels}
  /\ pc = "norm"
  /\ cum_histogram \in [0..(bin_count - 1) -> (-1)..Size(image_input)]
  /\ norm_histogram = Fill(bin_count, 0)
  /\ Blank

\* norm_hist applied to every bin
Normalise ==
  /\ pc = "norm"
  /\ \E ub \in Outcomes("norm_hist", DevMem, 0, bin_count, bin_count) :
       StoreMem(PhaseAll("norm_hist", DevMem, 0, bin_count, bin_count, ub))
  /\ pc' = "normalised"
  /\ UNCHANGED <<stage, bin_count, image_input, int_histogram_buffer,
                 cum_histogram_buffer, norm_histogram_buffer, output_buffer,
                 output_image, allocated, diagnostic, dev_image_input, queue,
                 running, phase, started, histVars>>

NextNorm == Normalise

SpecNorm == InitNorm /\ [][NextNorm]_vars

(***************************************************************************)
(* cum_hist on its own, work items interleaved: SpecScan                   *)
(***************************************************************************)
\* main is about to dispatch cum_hist: the image of bin_count black pixels is
\* on the device and int_hist has counted it into bins that held zero
InitScan ==
  /\ bin_count \in 1..MaxScanBins
  /\ image_input = Fill(bin_count, 0)
  /\ pc = "dispatch"
  /\ stage = 2
  /\ int_histogram = [i \in 0..(HistBufferInts - 1) |-> IF i = 0 THEN bin_count ELSE 0]
  /\ int_histogram_buffer = Take(int_histogram, HistReadInts)
  /\ cum_histogram = Fill(HistBufferInts, 0)
  /\ norm_histogram = Fill(HistBufferInts, 0)
  /\ cum_histogram_buffer = << >>
  /\ norm_histogram_buffer = << >>
  /\ output_buffer = << >>
  /\ output_image = << >>
  /\ allocated = ImageBuffers \cup HistogramBuffers
  /\ created = ImageBuffers \cup HistogramBuffers
  /\ diagnostic = "none"
  /\ dev_image_input = image_input
  /\ dev_image_output = Fill(bin_count, 0)
  /\ queue = << >>
  /\ fault = FALSE
  /\ running = "none"
  /\ phase = << >>
  /\ started = {}
  /\ scratch_1 = << >>
  /\ scratch_2 = << >>
  /\ dispatch_log = <<"int_hist">>
  /\ completed = {"int_hist"}
  /\ runs = 1
  /\ prev_output = << >>

NextScan ==
  \/ DispatchCumHist
  \/ EnqueueRead
  \/ ReadReturns
  \/ KernelStart
  \/ GroupStart
  \/ \E id \in DOMAIN phase : WorkItem(id)
  \/ KernelFinish
  \/ DeviceRead

\* the scan stage of the program, work items interleaved step by step
SpecScan == InitScan /\ [][NextScan]_vars

(***************************************************************************)
(* Properties                                                              *)
(***************************************************************************)
\* the bins of a histogram of the program
Bins == 0..(bin_count - 1)

\* B is the inclusive prefix sum of A over the bins:
\* B[i] = A[0] + ... + A[i] for every bin i
PrefixSums(A, B) ==
  \A i \in Bins :
     /\ i \in DOMAIN A
     /\ i \in DOMAIN B
     /\ B[i] = IF i = 0 THEN A[0] ELSE B[i - 1] + A[i]

NonDecreasing(A) == \A i \in Bins \ {0} : A[i - 1] <= A[i]

\* C1 (SpecItems): histogram build. Whatever the interleaving of the
\* per-pixel work items, once the build stage has completed histogram[v] is
\* the number of pixels of intensity v, for every bin v.
C1_BuildCounts ==
  "int_hist" \in completed =>
     \A v \in Bins : int_histogram_buffer[v] = Count(image_input, v)

\* C1: a completed build stage whose work items found stale bins
C1_StaleBins ==
  /\ "int_hist" \in completed
  /\ \E v \in Bins : int_histogram_buffer[v] > Count(image_input, v)

\* C2: conservation of the pixel count. After the build stage the bins of
\* the frequency histogram sum to the image size.
C2_Conservation ==
  "int_hist" \in completed =>
     SumRange(int_histogram_buffer, 0, bin_count - 1) = image_size

\* C3: prefix scan. Once the work items of the scan have performed the
\* ceil(log2(B)) Hillis-Steele steps, the local buffer selected as final
\* holds the inclusive prefix sums of the histogram, and so does the
\* cumulative histogram read back.
C3_PrefixScan ==
  /\ (running = "cum_hist" /\ phase[0] >= ScanSteps(bin_count) + 1) =>
        /\ 0 \in DOMAIN scratch_1
        /\ 0 \in DOMAIN scratch_2
        /\ PrefixSums(int_histogram,
                      IF ScanSteps(bin_count) % 2 = 0 THEN scratch_1[0] ELSE scratch_2[0])
  /\ "cum_hist" \in completed =>
        /\ PrefixSums(int_histogram, cum_histogram)
        /\ PrefixSums(int_histogram_buffer, cum_histogram_buffer)

\* C3: a scan over three bins (not a power of two), first and last occupied,
\* has completed
C3_ScannedThreeBins ==
  /\ "cum_hist" \in completed
  /\ bin_count = 3
  /\ int_histogram_buffer[0] > 0
  /\ int_histogram_buffer[2] > 0
  /\ cum_histogram_buffer[2] = 3

\* C4: after the scan stage the cumulative histogram is non-decreasing and
\* its last entry is the image size.
C4_CumulativeShape ==
  "cum_hist" \in completed =>
     /\ NonDecreasing(cum_histogram_buffer)
     /\ cum_histogram_buffer[bin_count - 1] = image_size

\* C5: the look-up table written by the normalise stage is non-decreasing
\* and every entry lies in 0..255.
C5_TableRange ==
  "norm_hist" \in completed =>
     /\ NonDecreasing(norm_histogram_buffer)
     /\ \A i \in Bins : norm_histogram_buffer[i] \in 0..(Levels - 1)

C7_BackProjection ==
  pc = "done" =>
     /\ Size(output_image) = Size(image_input)
     /\ \A p \in DOMAIN image_input :
           /\ image_input[p] \in DOMAIN norm_histogram
           /\ output_image[p] = norm_histogram[image_input[p]]

\* C8: order preservation end to end. input[p] <= input[q] implies
\* output[p] <= output[q] in the output image.
C8_OrderPreserved ==
  pc = "done" =>
     \A p, q \in DOMAIN image_input :
        image_input[p] <= image_input[q] => output_image[p] <= output_image[q]

\* C9: stage ordering. The stages are dispatched in the order int_hist,
\* cum_hist, norm_hist, back_project; a stage is dispatched only after the
\* kernel and the readback of every earlier stage have completed; the
\* commands in the queue belong to one stage, the last one dispatched.
C9_StageOrder ==
  /\ Len(dispatch_log) <= 4
  /\ \A k \in 1..Len(dispatch_log) : dispatch_log[k] = Stages[k]
  /\ \A k \in 1..(Len(dispatch_log) - 1) : Stages[k] \in completed
  /\ \A k \in 1..Len(queue) :
        /\ dispatch_log # << >>
        /\ queue[k].stage = dispatch_log[Len(dispatch_log)]
  /\ running # "none" => running = dispatch_log[Len(dispatch_log)]
  /\ pc = "dispatch" => (queue = << >> /\ running = "none")

\* C9: a run in which all four stages have been dispatched and completed
C9_AllStagesRan ==
  /\ pc = "done"
  /\ dispatch_log = Stages
  /\ completed = StageSet

\* C10 (SpecRuns): determinism. A second run on the same image with the
\* same bin count produces the output image of the first.
C10_Deterministic ==
  (runs = 2 /\ pc = "done") => output_image = prev_output

\* C11: failure handling. Once a build, allocation, transfer, dispatch or
\* read has failed the run is in the failed state: every device buffer has
\* been released, the error has been written as a diagnostic, there is no
\* output image, nothing is queued or running, and from then on no stage is
\* dispatched and no output image appears.
C11_FailureHandling ==
  /\ [](pc = "failed" =>
          /\ allocated = {}
          /\ diagnostic # "none"
          /\ output_image = << >>
          /\ queue = << >>
          /\ running = "none")
  /\ [][pc = "failed" =>
          /\ pc' = "failed"
          /\ dispatch_log' = dispatch_log
          /\ output_image' = << >>]_vars

\* C11: a run that failed in a later stage, with buffers created and the
\* first stage completed
C11_FailedMidway ==
  /\ pc = "failed"
  /\ "int_hist" \in completed
  /\ created = ImageBuffers \cup HistogramBuffers

\* C12: bin-count validation. A bin count that is not in 1..256 is rejected
\* before any device buffer is created and before any stage is dispatched.
C12_BinCountValidated ==
  bin_count \notin 1..Levels =>
     /\ created = {}
     /\ dispatch_log = << >>

\* C13: empty image. With an image of zero pixels the run ends in an error
\* before any device buffer exists and before any dispatch; and whenever
\* the normalise stage has been dispatched its divisor is not zero.
C13_EmptyImage ==
  /\ image_size = 0 =>
        /\ pc \in {"build", "alloc", "failed", "aborted"}
        /\ created = {}
        /\ dispatch_log = << >>
        /\ queue = << >>
  /\ Len(dispatch_log) >= 3 =>
        /\ image_size > 0
        /\ NormDivisor(norm_args) # 0

\* C13: the run on an image of zero pixels has ended with a cl::Error
C13_EmptyImageRefused ==
  /\ image_size = 0
  /\ pc = "failed"
  /\ diagnostic = "cl::Error"
  /\ bin_count = Levels

\* C14: bin count 1. The build stage puts all N pixels into bin 0, whatever
\* their intensities: histogram[0] = N.
C14_SingleBin ==
  (bin_count = 1 /\ "int_hist" \in completed) => int_histogram_buffer[0] = image_size

\* the image has pixels and they all have the same intensity
Uniform(A) == A # << >> /\ \A p \in DOMAIN A : A[p] = A[0]

\* C15: uniform image. An image whose pixels all equal c yields
\* frequency[c] = N with every other bin 0, a cumulative histogram that is 0
\* below c and N from c on, a look-up table with at most two distinct
\* values, and an output image whose pixels are all equal.
C15_UniformImage ==
  (pc = "done" /\ Uniform(image_input)) =>
     /\ image_input[0] \in Bins
     /\ \A v \in Bins :
           /\ int_histogram_buffer[v] = (IF v = image_input[0] THEN image_size ELSE 0)
           /\ cum_histogram_buffer[v] = (IF v < image_input[0] THEN 0 ELSE image_size)
     /\ Cardinality({norm_histogram_buffer[v] : v \in Bins}) <= 2
     /\ \A p \in DOMAIN output_image : output_image[p] = output_image[0]

\* the local buffer the work items read in scan step k, and the one they write
ScanSource(k) == IF k % 2 = 1 THEN "scratch_1" ELSE "scratch_2"

ScanTarget(k) == IF k % 2 = 1 THEN "scratch_2" ELSE "scratch_1"

\* the cells work item id reads in step k of cum_hist with work groups of n:
\* a cell of global memory, or a cell of the local memory of its group
ScanReads(id, k, n) ==
  LET w   == id \div n
      lid == id % n
  IN  IF k = 0 THEN {<<"int_histogram", 0, id>>}
      ELSE IF k <= ScanSteps(n)
        THEN {<<ScanSource(k), w, lid>>}
               \cup (IF lid >= Stride(k) THEN {<<ScanSource(k), w, lid - Stride(k)>>} ELSE {})
        ELSE {<<ScanTarget(ScanSteps(n)), w, lid>>}

\* the cell it writes in that step
ScanWrites(id, k, n) ==
  LET w   == id \div n
      lid == id % n
  IN  IF k = 0 THEN {<<"scratch_1", w, lid>>}
      ELSE IF k <= ScanSteps(n)
        THEN {<<ScanTarget(k), w, lid>>}
        ELSE {<<"cum_histogram", 0, id>>}

\* work item id of the running kernel may perform its next step now
CanStep(id) ==
  /\ (id \div Head(queue).local) \in started
  /\ phase[id] < NumPhases(running, Head(queue).local)
  /\ {j \in Group(id \div Head(queue).local, Head(queue).local) : phase[j] < phase[id]} = {}

\* C16 (SpecScan): scan race-freedom. While cum_hist runs, no work item
\* that may step now writes a cell that another work item that may step now
\* reads or writes; the work items of the B bins are in one work group, and
\* none of them is more than one step ahead of another: each completes step
\* s before any begins step s+1.
C16_ScanRaceFree ==
  running = "cum_hist" =>
     /\ LET ready == {id \in DOMAIN phase : CanStep(id)}
        IN  \A i, j \in ready :
               i # j =>
                  ScanWrites(i, phase[i], Head(queue).local)
                    \cap (ScanReads(j, phase[j], Head(queue).local)
                            \cup ScanWrites(j, phase[j], Head(queue).local)) = {}
     /\ \A i, j \in Bins :
           /\ i \div Head(queue).local = j \div Head(queue).local
           /\ phase[j] <= phase[i] + 1

\* C16: a scan over three bins in the middle of its first step: one work
\* item has performed it, the others wait to
C16_MidStep ==
  /\ running = "cum_hist"
  /\ bin_count = 3
  /\ phase[0] = 2
  /\ phase[1] = 1
  /\ phase[2] = 1

\* C17 (Spec): buffer lifecycle. Each histogram holds all zeros on the
\* device when its producing stage is dispatched; once a later stage has
\* been dispatched the histogram still holds what was read back from its
\* producing stage; after back-projection the image on the device is the
\* image that was uploaded and the lookup table is the one read back.
C17_BufferLifecycle ==
  /\ (pc = "dispatch" /\ stage = 1) => int_histogram = Fill(HistBufferInts, 0)
  /\ (pc = "dispatch" /\ stage = 2) => cum_histogram = Fill(HistBufferInts, 0)
  /\ (pc = "dispatch" /\ stage = 3) => norm_histogram = Fill(HistBufferInts, 0)
  /\ (Len(dispatch_log) >= 2 /\ pc # "failed") =>
        Take(int_histogram, HistReadInts) = int_histogram_buffer
  /\ (Len(dispatch_log) >= 3 /\ pc # "failed") =>
        Take(cum_histogram, HistReadInts) = cum_histogram_buffer
  /\ ("back_project" \in completed /\ pc # "failed") =>
        /\ dev_image_input = image_input
        /\ Take(norm_histogram, HistReadInts) = norm_histogram_buffer

\* C18 (Spec): memory bounds. With a bin count in 1..256, while a kernel
\* runs no work item uses an index outside the device buffer it addresses.
C18_MemoryBounds ==
  (bin_count \in 1..Levels /\ running # "none") =>
     {id \in DOMAIN phase :
        IndexOutside(running, DevMem, id, phase[id], Head(queue).local)} = {}

\* C19 (Spec): dispatch validity. With a non-empty image and a bin count in
\* 1..256, the global work size of the dispatch main is about to make is an
\* exact multiple of the work-group size, so the dispatch is not refused.
C19_DispatchValid ==
  (pc = "dispatch" /\ bin_count \in 1..Levels /\ image_size > 0) =>
     ValidNDRange(GlobalSize(Stages[stage]), local_size)

\* C20 as stated (Spec): with a non-empty image and a bin count in 1..256,
\* also with fewer pixels than bins, the divisor image_size / bin_count that
\* main passes to norm_hist is non-zero.
C20_DivisorAnySize ==
  (bin_count \in 1..Levels /\ image_size >= 1) => NormDivisor(norm_args) # 0

\* C20 (Spec): non-zero divisor. Once the build dispatch has been accepted
\* the image size is a positive multiple of the bin count, so the divisor
\* norm_hist uses is at least 1 and divides the image size exactly.
C20_DivisorWhenDispatched ==
  dispatch_log # << >> =>
     /\ bin_count >= 1
     /\ image_size >= bin_count
     /\ NormDivisor(norm_args) >= 1
     /\ NormDivisor(norm_args) * bin_count = image_size

\* C20: norm_hist runs on an image with as many pixels as bins, the smallest
\* image that reaches it: the divisor is 1
C20_NormaliseRuns ==
  /\ running = "norm_hist"
  /\ bin_count = 3
  /\ image_size = 3
  /\ NormDivisor(norm_args) = 1

====
